---- MODULE Spec2Model ----
(***************************************************************************)
(* Model of the VCV Rack module-search pipeline (victorkashirin/thegrid):  *)
(*   - manifest ingestion  (data_parser.py, process_data.py)               *)
(*   - asset synchronization (image_downloader.py, process_data.py)        *)
(*   - index building (generate_search_file.py, timestamp_manager.py)      *)
(* Two implementations of the first two stages exist in the repository;    *)
(* the variable impl selects which one a behaviour runs.                   *)
(***************************************************************************)
EXTENDS Integers, Sequences, FiniteSets, TLC

VARIABLES
    impl,               \* "class" (PluginDataParser / ImageDownloader) or "script" (process_data.py)
    \* ---- manifest ingestion ----
    ingest_pc,          \* "idle" | "parsing" | "returned" | "raised"
    n_files,            \* len(json_files): number of manifest files found by rglob
    file_idx,           \* loop index i of parse_all_manifests / parse_all_plugins
    all_modules,        \* the accumulated list of ModuleRecords
    cur_file,           \* the manifest file read by the latest iteration
    prev_modules,       \* all_modules before the latest iteration
    \* ---- asset synchronization ----
    sync_pc,            \* "idle" | "ready" | "running" | "complete" | "aborted"
    modules,            \* the module list handed to the synchronizer
    manifest_cache_file,\* library/manifests-cache.json: [status, doc]
    build_timestamps,   \* the build-timestamp index in use
    now,                \* wall clock, epoch seconds
    cache,              \* local asset cache: asset -> [exists, content]
    remote,             \* remote host: asset -> [exists, content]
    mod_idx,            \* loop index i of download_module_images / download_images
    downloaded_count,
    skipped_count,
    first_run,          \* no run has completed yet
    fetched_prev,       \* indices whose download succeeded in the previous run
    fetched_cur,        \* indices whose download succeeded in the current run
    failed_count,       \* downloads that failed in the current run
    last,               \* what the latest iteration did: its step record
    \* ---- index building ----
    index_pc,           \* "idle" | "start" | "loaded" | "processing" | "saved" | "raised"
    index_exc,          \* the exception that left generate_search_file, or "none"
    parsed_plugins_file,\* parsed_plugins.json: [status, data]
    search_file,        \* search_file.json: absent, or [exists, doc]
    index_modules,      \* generate_search_file's local `modules`
    module_timestamps,  \* generate_search_file's local `module_timestamps`
    processed_modules   \* _process_modules' local `processed_modules`

ingestVars == <<ingest_pc, n_files, file_idx, all_modules, cur_file, prev_modules>>
syncVars == <<sync_pc, modules, manifest_cache_file, build_timestamps, now, cache,
              remote, mod_idx, downloaded_count, skipped_count, first_run, fetched_prev,
              fetched_cur, failed_count, last>>
indexVars == <<index_pc, index_exc, parsed_plugins_file, search_file, index_modules,
               module_timestamps, processed_modules>>
vars == <<impl, ingestVars, syncVars, indexVars>>

Impls == {"class", "script"}

(***************************************************************************)
(* Bounds of the model.                                                    *)
(***************************************************************************)
MaxManifestModules == 2  \* modules listed by one manifest (single-manifest runs)
MaxFiles == 2            \* manifest files in the directory
MaxDirModules == 1       \* modules listed by one manifest of a directory run
MaxModules == 2          \* length of the module list given to the synchronizer
MaxElapsedDays == 1      \* days that pass while the synchronizer is run again and again
MaxIndexModules == 2     \* length of the module list given to the index builder
MaxWidth == 46           \* pixel width of a cached image (single-image runs)
MaxBuildAgeDays == 4     \* age in days of a plugin's build (single-module runs)

(***************************************************************************)
(* JSON values.  Every value carries its type, so that a missing key       *)
(* (Python None), a boolean and a string stay distinguishable.             *)
(***************************************************************************)
None == [type |-> "null"]
JStr(s) == [type |-> "str", s |-> s]
JBool(b) == [type |-> "bool", b |-> b]
JList(l) == [type |-> "list", items |-> l]
JInt(n) == [type |-> "int", n |-> n]

\* the empty dict {}
EmptyDict == [k \in {} |-> None]

\* dict.get(key) / dict.get(key, default)
Get(d, k) == IF k \in DOMAIN d THEN d[k] ELSE None
GetDefault(d, k, default) == IF k \in DOMAIN d THEN d[k] ELSE default

\* Python truthiness of a JSON value (bool(v))
Truthy(v) ==
    CASE v.type = "null" -> FALSE
      [] v.type = "bool" -> v.b
      [] v.type = "str"  -> v.s # ""
      [] v.type = "list" -> v.items # <<>>

\* Python  v == True
EqTrue(v) == v.type = "bool" /\ v.b

(***************************************************************************)
(* Strings as sequences of characters, and Python's str ordering           *)
(* (lexicographic by code point; a proper prefix is smaller).              *)
(***************************************************************************)
Ord(c) ==
    CASE c = "." -> 46
      [] c = "0" -> 48
      [] c = "1" -> 49
      [] c = "2" -> 50
      [] c = "9" -> 57

Chars(s) ==
    CASE s = "2.0.0"  -> <<"2", ".", "0", ".", "0">>
      [] s = "1.9.0"  -> <<"1", ".", "9", ".", "0">>
      [] s = "2.1.0"  -> <<"2", ".", "1", ".", "0">>
      [] s = "10.0.0" -> <<"1", "0", ".", "0", ".", "0">>
      [] s = "2.0"    -> <<"2", ".", "0">>

RECURSIVE SeqLess(_, _)
SeqLess(a, b) ==
    IF b = <<>> THEN FALSE
    ELSE IF a = <<>> THEN TRUE
    ELSE IF Ord(Head(a)) # Ord(Head(b)) THEN Ord(Head(a)) < Ord(Head(b))
    ELSE SeqLess(Tail(a), Tail(b))

\* mutant: the leading (major) number of at most two digits is compared as a
\* number before the strings are compared
StrLess_MajorFirst(s, t) ==
    LET major(c) == IF c[2] = "." THEN Ord(c[1]) - 48
                    ELSE 10 * (Ord(c[1]) - 48) + (Ord(c[2]) - 48)
    IN  IF major(Chars(s)) # major(Chars(t)) THEN major(Chars(s)) < major(Chars(t))
        ELSE SeqLess(Chars(s), Chars(t))

\* str.__lt__
StrLess(s, t) == SeqLess(Chars(s), Chars(t))

(***************************************************************************)
(* config.py                                                               *)
(***************************************************************************)
MINIMUM_VERSION == "2.0.0"
EXCLUDED_PLUGINS == {"KRTPluginA"}
CACHE_EXPIRY_DAYS == 2
PIXELS_PER_HP == 15
SEARCH_HEADERS ==
    <<"plugin_slug", "plugin_name", "module_name", "module_slug", "description", "tags",
      "timestamp", "size">>

(***************************************************************************)
(* Manifest ingestion: the inputs.                                         *)
(* A manifest file is missing, malformed JSON, or holds a JSON object; a   *)
(* JSON object is a function from the keys it has to their values.         *)
(***************************************************************************)
ModuleManifests ==
    { [slug |-> JStr("m1"), name |-> JStr("M1"), description |-> JStr("d1"),
       tags |-> JList(<<"Filter">>), hidden |-> JBool(FALSE), deprecated |-> JBool(FALSE)],
      [slug |-> JStr("m2"), name |-> JStr("M2"), description |-> JStr("d2")],
      [slug |-> JStr("m3"), name |-> JStr("M3"), description |-> JStr("d3"),
       hidden |-> JBool(TRUE)],
      [slug |-> JStr("m4"), name |-> JStr("M4"), description |-> JStr("d4"),
       tags |-> JList(<<"Mixer">>), hidden |-> JBool(FALSE), deprecated |-> JBool(TRUE)],
      [slug |-> JStr("m5"), name |-> JStr("M5"), description |-> JStr("d5"),
       hidden |-> JStr("yes")] }

SeqsUpTo(S, n) == UNION { [1..k -> S] : k \in 0..n }

VersionStrings == {"1.9.0", "2.0.0", "2.0", "2.1.0", "10.0.0"}
PluginSlugs == {"A", "KRTPluginA"}

\* the part of a manifest other than its version and module list
PluginHeader(slug) == [slug |-> JStr(slug), name |-> JStr("Plugin")]

WithKey(d, k, v) == [x \in DOMAIN d \cup {k} |-> IF x = k THEN v ELSE d[x]]

PluginManifests(n) ==
    LET headers == { PluginHeader(s) : s \in PluginSlugs }
        versioned == headers \cup
                     { WithKey(h, "version", JStr(v)) : h \in headers, v \in VersionStrings }
    IN  versioned \cup
        { WithKey(m, "modules", JList(l)) :
              m \in versioned, l \in SeqsUpTo(ModuleManifests, n) }

ManifestFiles(n) ==
    { [status |-> "missing"], [status |-> "malformed"] } \cup
    { [status |-> "ok", data |-> m] : m \in PluginManifests(n) }

(***************************************************************************)
(* Manifest ingestion: the code.  A call returns                           *)
(*   [exc |-> "none", value |-> records]   or   [exc |-> <exception>]      *)
(***************************************************************************)
Return(v) == [exc |-> "none", value |-> v]
Raise(e) == [exc |-> e]

\* version < MINIMUM_VERSION: str < str is the string ordering; None < str
\* raises TypeError
VersionBelowMinimum(version) ==
    IF version.type = "str" THEN Return(StrLess(version.s, MINIMUM_VERSION))
    ELSE Raise("TypeError")

\* plugin_slug in EXCLUDED_PLUGINS
IsExcluded(plugin_slug) == plugin_slug.type = "str" /\ plugin_slug.s \in EXCLUDED_PLUGINS

\* mutant: `and` for `or`
_is_valid_module_And(module) == ~ (Truthy(Get(module, "hidden")) /\ Truthy(Get(module, "deprecated")))

_is_valid_module(module) == ~ (Truthy(Get(module, "hidden")) \/ Truthy(Get(module, "deprecated")))

_create_module_info(plugin_name, plugin_slug, module) ==
    [plugin_name |-> plugin_name,
     plugin_slug |-> plugin_slug,
     module_name |-> Get(module, "name"),
     module_slug |-> Get(module, "slug"),
     description |-> Get(module, "description"),
     tags |-> GetDefault(module, "tags", JList(<<>>))]

_extract_module_data(plugin_data) ==
    LET below == VersionBelowMinimum(Get(plugin_data, "version"))
        plugin_slug == Get(plugin_data, "slug")
        plugin_name == Get(plugin_data, "name")
        mods == GetDefault(plugin_data, "modules", JList(<<>>)).items
        kept == SelectSeq(mods, _is_valid_module)
    IN  IF below.exc # "none" THEN below
        ELSE IF below.value THEN Return(<<>>)
        ELSE IF IsExcluded(plugin_slug) THEN Return(<<>>)
        ELSE Return([k \in 1..Len(kept) |->
                        _create_module_info(plugin_name, plugin_slug, kept[k])])

parse_plugin_manifest(file) ==
    IF file.status = "malformed" THEN Return(<<>>)      \* json.JSONDecodeError
    ELSE IF file.status = "missing" THEN Return(<<>>)   \* FileNotFoundError
    ELSE _extract_module_data(file.data)

\* process_data.py: the loop body's two `continue` tests
ScriptKeepsModule(module) ==
    ~ EqTrue(Get(module, "hidden")) /\ ~ EqTrue(Get(module, "deprecated"))

parse_plugin_json_to_list(file) ==
    IF file.status = "malformed" THEN Return(<<>>)
    ELSE IF file.status = "missing" THEN Return(<<>>)
    ELSE LET data == file.data
             below == VersionBelowMinimum(Get(data, "version"))
             plugin_name == Get(data, "name")
             plugin_slug == Get(data, "slug")
             mods == GetDefault(data, "modules", JList(<<>>)).items
             kept == SelectSeq(mods, ScriptKeepsModule)
         IN  IF below.exc # "none" THEN below
             ELSE IF below.value THEN Return(<<>>)
             ELSE IF IsExcluded(plugin_slug) THEN Return(<<>>)
             ELSE Return([k \in 1..Len(kept) |->
                             _create_module_info(plugin_name, plugin_slug, kept[k])])

ParseFile(i, file) == IF i = "class" THEN parse_plugin_manifest(file) ELSE parse_plugin_json_to_list(file)

(***************************************************************************)
(* Manifest ingestion: the state machine of parse_all_manifests            *)
(* (data_parser.py) and parse_all_plugins (process_data.py).               *)
(***************************************************************************)
NoFile == [status |-> "none"]

\* one iteration of `for i, manifest_path in enumerate(json_files)`; the file's
\* content is whatever is on disk when the iteration opens it
ParseManifest ==
    /\ ingest_pc = "parsing"
    /\ file_idx < n_files
    /\ \E file \in ManifestFiles(MaxDirModules) :
          LET r == ParseFile(impl, file)
          IN  /\ cur_file' = file
              /\ prev_modules' = all_modules
              /\ all_modules' = IF r.exc = "none" THEN all_modules \o r.value ELSE all_modules
              /\ file_idx' = IF r.exc = "none" THEN file_idx + 1 ELSE file_idx
              /\ ingest_pc' = IF r.exc = "none" THEN "parsing" ELSE "raised"
    /\ UNCHANGED <<impl, n_files, syncVars, indexVars>>

\* `return all_modules` once the loop is exhausted
ReturnModules ==
    /\ ingest_pc = "parsing"
    /\ file_idx = n_files
    /\ ingest_pc' = "returned"
    /\ UNCHANGED <<impl, n_files, file_idx, all_modules, cur_file, prev_modules, syncVars, indexVars>>

\* a single call of parse_plugin_manifest / parse_plugin_json_to_list on cur_file
ParsePluginManifest ==
    /\ ingest_pc = "call"
    /\ LET r == ParseFile(impl, cur_file)
       IN  /\ all_modules' = IF r.exc = "none" THEN r.value ELSE all_modules
           /\ ingest_pc' = IF r.exc = "none" THEN "returned" ELSE "raised"
    /\ UNCHANGED <<impl, n_files, file_idx, cur_file, prev_modules, syncVars, indexVars>>

(***************************************************************************)
(* Asset synchronization: the inputs.                                      *)
(***************************************************************************)
SecondsPerDay == 86400
UnknownDays == 1000000
Now0 == 100 * SecondsPerDay

\* a file, locally or on the remote host: absent, or a sequence of bytes
Absent == [exists |-> FALSE]
File(bytes) == [exists |-> TRUE, content |-> bytes]

SyncPlugins == {"A"}
SyncRecord(p, m) ==
    _create_module_info(JStr("Plugin"), JStr(p),
                        [slug |-> JStr(m), name |-> JStr("M"), description |-> JStr("d")])
SyncModules == { SyncRecord("A", "m1"), SyncRecord("A", "m2") }

\* CACHE_DIR / plugin_slug / f"{module_slug}.{IMAGE_FORMAT}", and the URL of the
\* same shape: both are determined by the pair of slugs
image_path(module) == <<module.plugin_slug.s, module.module_slug.s>>
Paths == { image_path(m) : m \in SyncModules }

RemoteFiles == { Absent, File(<<1, 2>>) }
LocalFiles == { Absent, File(<<1, 2>>), File(<<9>>) }

\* plugin built 2 days and 1 hour ago / 10 days ago
BuildTimes == { Now0 - 2 * SecondsPerDay - 3600, Now0 - 10 * SecondsPerDay }
CacheEntries == { EmptyDict } \cup { [buildTimestamp |-> t] : t \in BuildTimes }
CacheDocs == UNION { [ps -> CacheEntries] : ps \in SUBSET SyncPlugins }
ManifestCacheFiles ==
    { [status |-> "missing"], [status |-> "malformed"] } \cup
    { [status |-> "ok", doc |-> d] : d \in CacheDocs }

(***************************************************************************)
(* The build-timestamp index.                                              *)
(***************************************************************************)
\* mutant: an entry without a buildTimestamp counts as built at the epoch
get_build_timestamps_EpochDefault(file) ==
    IF file.status = "ok"
    THEN [slug \in DOMAIN file.doc |-> GetDefault(file.doc[slug], "buildTimestamp", 0)]
    ELSE EmptyDict

\* mutant: without a readable document every plugin counts as just built
get_build_timestamps_FreshOnError(file) ==
    IF file.status = "ok"
    THEN [slug \in DOMAIN file.doc |-> GetDefault(file.doc[slug], "buildTimestamp", -1)]
    ELSE [slug \in SyncPlugins |-> Now0]

\* timestamp_manager.py and process_data.py: the same comprehension, {} when
\* the file is missing or malformed
get_build_timestamps(file) ==
    IF file.status = "ok"
    THEN [slug \in DOMAIN file.doc |-> GetDefault(file.doc[slug], "buildTimestamp", -1)]
    ELSE EmptyDict

\* mutant: an unknown plugin counts as just built
_get_days_since_update_UnknownFresh(bts, plugin_slug, t) ==
    IF plugin_slug \notin DOMAIN bts THEN 0
    ELSE (t - bts[plugin_slug]) \div SecondsPerDay

\* (datetime.now() - datetime.fromtimestamp(timestamp)).days: whole days, floored
_get_days_since_update(bts, plugin_slug, t) ==
    IF plugin_slug \notin DOMAIN bts THEN UnknownDays
    ELSE (t - bts[plugin_slug]) \div SecondsPerDay

\* mutant: the elapsed seconds instead of the elapsed days
get_days_diff_Seconds(plugin_slug, bts, t) ==
    IF plugin_slug \notin DOMAIN bts THEN UnknownDays
    ELSE t - bts[plugin_slug]

get_days_diff(plugin_slug, bts, t) ==
    IF plugin_slug \notin DOMAIN bts THEN UnknownDays
    ELSE (t - bts[plugin_slug]) \div SecondsPerDay

(***************************************************************************)
(* The remote host.  A request fails (transport error, timeout, non-2xx    *)
(* status: requests.RequestException) or succeeds.                         *)
(***************************************************************************)
HeadResponses(r, path) ==
    { [status |-> "error"] } \cup
    IF r[path].exists
    THEN { [status |-> "ok", headers |-> EmptyDict],
           [status |-> "ok", headers |-> ("content-length" :> Len(r[path].content))] }
    ELSE {}

GetResponses(r, path) ==
    { [status |-> "error"] } \cup
    IF r[path].exists THEN { [status |-> "ok", content |-> r[path].content] } ELSE {}

\* int(response.headers.get("content-length", -1)), -1 on RequestException
_get_remote_file_size(head) ==
    IF head.status = "error" THEN -1
    ELSE GetDefault(head.headers, "content-length", -1)

st_size(file) == Len(file.content)

(***************************************************************************)
(* ImageDownloader (image_downloader.py).  The result of a call carries    *)
(* the requests it issued, in order, in `events`.                          *)
(***************************************************************************)
\* mutant: no staleness branch, every existing file is size-probed
_should_skip_download_NoStaleCheck(c, bts, t, path, plugin_slug, head) ==
    IF ~ c[path].exists THEN [skip |-> FALSE, events |-> <<>>, remote_size |-> -1]
    ELSE LET local_size == st_size(c[path])
             remote_size == _get_remote_file_size(head)
         IN  [skip |-> remote_size # -1 /\ local_size = remote_size,
              events |-> <<"HEAD">>,
              remote_size |-> remote_size]

\* mutant: any successful probe skips, the sizes are not compared
_should_skip_download_AnyProbe(c, bts, t, path, plugin_slug, head) ==
    IF ~ c[path].exists THEN [skip |-> FALSE, events |-> <<>>, remote_size |-> -1]
    ELSE IF _get_days_since_update(bts, plugin_slug, t) > CACHE_EXPIRY_DAYS
    THEN [skip |-> TRUE, events |-> <<>>, remote_size |-> -1]
    ELSE LET remote_size == _get_remote_file_size(head)
         IN  [skip |-> remote_size # -1, events |-> <<"HEAD">>, remote_size |-> remote_size]

\* mutant: the skip is taken at CACHE_EXPIRY_DAYS already
_should_skip_download_AtExpiry(c, bts, t, path, plugin_slug, head) ==
    IF ~ c[path].exists THEN [skip |-> FALSE, events |-> <<>>, remote_size |-> -1]
    ELSE IF _get_days_since_update(bts, plugin_slug, t) >= CACHE_EXPIRY_DAYS
    THEN [skip |-> TRUE, events |-> <<>>, remote_size |-> -1]
    ELSE LET local_size == st_size(c[path])
             remote_size == _get_remote_file_size(head)
         IN  [skip |-> remote_size # -1 /\ local_size = remote_size,
              events |-> <<"HEAD">>,
              remote_size |-> remote_size]

\* mutant: the probe is issued whether or not the local file exists
_should_skip_download_ProbeAbsent(c, bts, t, path, plugin_slug, head) ==
    IF ~ c[path].exists
    THEN [skip |-> FALSE, events |-> <<"HEAD">>, remote_size |-> _get_remote_file_size(head)]
    ELSE IF _get_days_since_update(bts, plugin_slug, t) > CACHE_EXPIRY_DAYS
    THEN [skip |-> TRUE, events |-> <<>>, remote_size |-> -1]
    ELSE LET local_size == st_size(c[path])
             remote_size == _get_remote_file_size(head)
         IN  [skip |-> remote_size # -1 /\ local_size = remote_size,
              events |-> <<"HEAD">>,
              remote_size |-> remote_size]

\* mutant: the staleness test comes before the existence test
_should_skip_download_StaleFirst(c, bts, t, path, plugin_slug, head) ==
    IF _get_days_since_update(bts, plugin_slug, t) > CACHE_EXPIRY_DAYS
    THEN [skip |-> TRUE, events |-> <<>>, remote_size |-> -1]
    ELSE IF ~ c[path].exists THEN [skip |-> FALSE, events |-> <<>>, remote_size |-> -1]
    ELSE LET local_size == st_size(c[path])
             remote_size == _get_remote_file_size(head)
         IN  [skip |-> remote_size # -1 /\ local_size = remote_size,
              events |-> <<"HEAD">>,
              remote_size |-> remote_size]

_should_skip_download(c, bts, t, path, plugin_slug, head) ==
    IF ~ c[path].exists THEN [skip |-> FALSE, events |-> <<>>, remote_size |-> -1]
    ELSE IF _get_days_since_update(bts, plugin_slug, t) > CACHE_EXPIRY_DAYS
    THEN [skip |-> TRUE, events |-> <<>>, remote_size |-> -1]
    ELSE LET local_size == st_size(c[path])
             remote_size == _get_remote_file_size(head)
         IN  [skip |-> remote_size # -1 /\ local_size = remote_size,
              events |-> <<"HEAD">>,
              remote_size |-> remote_size]

\* mutant: the file is opened for writing but the content is never written
_download_image_EmptyWrite(c, path, get) ==
    IF get.status = "error"
    THEN [exc |-> "NetworkError", cache |-> c, events |-> <<"GET">>]
    ELSE [exc |-> "none",
          cache |-> [c EXCEPT ![path] = File(<<>>)],
          events |-> <<"GET", "WRITE", "SLEEP">>]

\* mutant: the delay comes before the request
_download_image_SleepFirst(c, path, get) ==
    IF get.status = "error"
    THEN [exc |-> "NetworkError", cache |-> c, events |-> <<"SLEEP", "GET">>]
    ELSE [exc |-> "none",
          cache |-> [c EXCEPT ![path] = File(get.content)],
          events |-> <<"SLEEP", "GET", "WRITE">>]

\* mutant: the local file is opened for writing before the request is made
_download_image_TruncateFirst(c, path, get) ==
    IF get.status = "error"
    THEN [exc |-> "NetworkError", cache |-> [c EXCEPT ![path] = File(<<>>)],
          events |-> <<"GET">>]
    ELSE [exc |-> "none",
          cache |-> [c EXCEPT ![path] = File(get.content)],
          events |-> <<"GET", "WRITE", "SLEEP">>]

\* mutant: a failed download removes the local file
_download_image_UnlinkOnError(c, path, get) ==
    IF get.status = "error"
    THEN [exc |-> "NetworkError", cache |-> [c EXCEPT ![path] = Absent], events |-> <<"GET">>]
    ELSE [exc |-> "none",
          cache |-> [c EXCEPT ![path] = File(get.content)],
          events |-> <<"GET", "WRITE", "SLEEP">>]

\* requests.get, raise_for_status, write, sleep; NetworkError on RequestException
_download_image(c, path, get) ==
    IF get.status = "error"
    THEN [exc |-> "NetworkError", cache |-> c, events |-> <<"GET">>]
    ELSE [exc |-> "none",
          cache |-> [c EXCEPT ![path] = File(get.content)],
          events |-> <<"GET", "WRITE", "SLEEP">>]

\* mutant: a failed download is counted as a download
_download_module_image_FailedCounted(c, bts, t, dl, sk, module, head, get) ==
    LET plugin_slug == module.plugin_slug.s
        path == image_path(module)
        decision == _should_skip_download(c, bts, t, path, plugin_slug, head)
        d == _download_image(c, path, get)
    IN  IF decision.skip
        THEN [cache |-> c, downloaded_count |-> dl, skipped_count |-> sk + 1,
              outcome |-> "skipped", events |-> decision.events,
              remote_size |-> decision.remote_size]
        ELSE IF d.exc = "none"
        THEN [cache |-> d.cache, downloaded_count |-> dl + 1, skipped_count |-> sk,
              outcome |-> "downloaded", events |-> decision.events \o d.events,
              remote_size |-> decision.remote_size]
        ELSE [cache |-> d.cache, downloaded_count |-> dl + 1, skipped_count |-> sk,
              outcome |-> "failed", events |-> decision.events \o d.events,
              remote_size |-> decision.remote_size]

\* mutant: the NetworkError is not caught
_download_module_image_Uncaught(c, bts, t, dl, sk, module, head, get) ==
    LET plugin_slug == module.plugin_slug.s
        path == image_path(module)
        decision == _should_skip_download(c, bts, t, path, plugin_slug, head)
        d == _download_image(c, path, get)
    IN  IF decision.skip
        THEN [cache |-> c, downloaded_count |-> dl, skipped_count |-> sk + 1,
              outcome |-> "skipped", events |-> decision.events,
              remote_size |-> decision.remote_size]
        ELSE IF d.exc = "none"
        THEN [cache |-> d.cache, downloaded_count |-> dl + 1, skipped_count |-> sk,
              outcome |-> "downloaded", events |-> decision.events \o d.events,
              remote_size |-> decision.remote_size]
        ELSE [cache |-> d.cache, downloaded_count |-> dl, skipped_count |-> sk,
              outcome |-> "raised", events |-> decision.events \o d.events,
              remote_size |-> decision.remote_size]

_download_module_image(c, bts, t, dl, sk, module, head, get) ==
    LET plugin_slug == module.plugin_slug.s
        path == image_path(module)
        decision == _should_skip_download(c, bts, t, path, plugin_slug, head)
        d == _download_image(c, path, get)
    IN  IF decision.skip
        THEN [cache |-> c, downloaded_count |-> dl, skipped_count |-> sk + 1,
              outcome |-> "skipped", events |-> decision.events,
              remote_size |-> decision.remote_size]
        ELSE IF d.exc = "none"
        THEN [cache |-> d.cache, downloaded_count |-> dl + 1, skipped_count |-> sk,
              outcome |-> "downloaded", events |-> decision.events \o d.events,
              remote_size |-> decision.remote_size]
        ELSE [cache |-> d.cache, downloaded_count |-> dl, skipped_count |-> sk,
              outcome |-> "failed", events |-> decision.events \o d.events,
              remote_size |-> decision.remote_size]

(***************************************************************************)
(* download_images (process_data.py): the body of its loop.                *)
(***************************************************************************)
\* mutant: the script skips on a size match only, without the staleness test
download_images_body_SizeOnly(c, bts, t, dl, sk, module, head, get) ==
    LET path == image_path(module)
        local_size == st_size(c[path])
        remote_size == _get_remote_file_size(head)
        probe == IF c[path].exists THEN <<"HEAD">> ELSE <<>>
        probed_size == IF c[path].exists THEN remote_size ELSE -1
    IN  IF c[path].exists /\ remote_size # -1 /\ local_size = remote_size
        THEN [cache |-> c, downloaded_count |-> dl, skipped_count |-> sk + 1,
              outcome |-> "skipped", events |-> <<"HEAD">>, remote_size |-> remote_size]
        ELSE IF get.status = "error"
        THEN [cache |-> c, downloaded_count |-> dl, skipped_count |-> sk,
              outcome |-> "failed", events |-> probe \o <<"GET">>,
              remote_size |-> probed_size]
        ELSE [cache |-> [c EXCEPT ![path] = File(get.content)],
              downloaded_count |-> dl + 1, skipped_count |-> sk,
              outcome |-> "downloaded", events |-> probe \o <<"GET", "WRITE", "SLEEP">>,
              remote_size |-> probed_size]

download_images_body(c, bts, t, dl, sk, module, head, get) ==
    LET plugin_slug == module.plugin_slug.s
        path == image_path(module)
        stale == get_days_diff(plugin_slug, bts, t) > CACHE_EXPIRY_DAYS
        local_size == st_size(c[path])
        remote_size == _get_remote_file_size(head)
        probe == IF c[path].exists /\ ~ stale THEN <<"HEAD">> ELSE <<>>
        probed_size == IF c[path].exists /\ ~ stale THEN remote_size ELSE -1
    IN  IF c[path].exists /\ stale
        THEN [cache |-> c, downloaded_count |-> dl, skipped_count |-> sk + 1,
              outcome |-> "skipped", events |-> <<>>, remote_size |-> -1]
        ELSE IF c[path].exists /\ remote_size # -1 /\ local_size = remote_size
        THEN [cache |-> c, downloaded_count |-> dl, skipped_count |-> sk + 1,
              outcome |-> "skipped", events |-> <<"HEAD">>, remote_size |-> remote_size]
        ELSE IF get.status = "error"
        THEN [cache |-> c, downloaded_count |-> dl, skipped_count |-> sk,
              outcome |-> "failed", events |-> probe \o <<"GET">>,
              remote_size |-> probed_size]
        ELSE [cache |-> [c EXCEPT ![path] = File(get.content)],
              downloaded_count |-> dl + 1, skipped_count |-> sk,
              outcome |-> "downloaded", events |-> probe \o <<"GET", "WRITE", "SLEEP">>,
              remote_size |-> probed_size]

ProcessModule(i, c, bts, t, dl, sk, module, head, get) ==
    IF i = "class" THEN _download_module_image(c, bts, t, dl, sk, module, head, get)
    ELSE download_images_body(c, bts, t, dl, sk, module, head, get)

(***************************************************************************)
(* Asset synchronization: the state machine of download_module_images      *)
(* (image_downloader.py) and download_images (process_data.py).            *)
(***************************************************************************)
NoStep == [idx |-> -1]
NoRequest == [status |-> "none"]
Issued(events, e) == \E k \in DOMAIN events : events[k] = e

\* entry of a run: counters reset; process_data.py loads the build timestamps
\* here, ImageDownloader was given them at construction.  Time may have passed
\* since the previous run.
StartDownload ==
    /\ sync_pc \in {"ready", "complete"}
    /\ index_pc \in {"idle", "saved", "raised"}    \* the stages run one after the other
    /\ sync_pc' = "running"
    /\ mod_idx' = 0
    /\ downloaded_count' = 0
    /\ skipped_count' = 0
    /\ build_timestamps' = IF impl = "script" THEN get_build_timestamps(manifest_cache_file)
                           ELSE build_timestamps
    /\ \E dt \in {0, SecondsPerDay} :
          /\ sync_pc = "ready" => dt = 0
          /\ now + dt <= Now0 + MaxElapsedDays * SecondsPerDay
          /\ now' = now + dt
    /\ first_run' = (sync_pc = "ready")
    /\ fetched_prev' = fetched_cur
    /\ fetched_cur' = {}
    /\ failed_count' = 0
    /\ last' = NoStep
    /\ UNCHANGED <<impl, ingestVars, indexVars, modules, manifest_cache_file, cache, remote>>

\* one iteration of `for i, module in enumerate(modules)`
DownloadModuleImage ==
    /\ sync_pc = "running"
    /\ mod_idx < Len(modules)
    /\ LET module == modules[mod_idx + 1]
           path == image_path(module)
       IN  \E head \in HeadResponses(remote, path), get \in GetResponses(remote, path) :
              LET r == ProcessModule(impl, cache, build_timestamps, now,
                                     downloaded_count, skipped_count, module, head, get)
              IN  /\ cache' = r.cache
                  \* an exception leaving the loop body would leave the loop
                  /\ sync_pc' = IF r.outcome = "raised" THEN "aborted" ELSE sync_pc
                  /\ mod_idx' = IF r.outcome = "raised" THEN mod_idx ELSE mod_idx + 1
                  /\ downloaded_count' = r.downloaded_count
                  /\ skipped_count' = r.skipped_count
                  /\ fetched_cur' = IF r.outcome = "downloaded"
                                    THEN fetched_cur \cup {mod_idx} ELSE fetched_cur
                  /\ failed_count' = IF r.outcome = "failed"
                                     THEN failed_count + 1 ELSE failed_count
                  /\ last' = [idx |-> mod_idx, path |-> path,
                              plugin_slug |-> module.plugin_slug.s,
                              before |-> cache[path], after |-> r.cache[path],
                              others_unchanged |->
                                  \A q \in Paths \ {path} : r.cache[q] = cache[q],
                              outcome |-> r.outcome, events |-> r.events,
                              head |-> IF Issued(r.events, "HEAD") THEN head ELSE NoRequest,
                              get |-> IF Issued(r.events, "GET") THEN get ELSE NoRequest,
                              skipped_before |-> skipped_count,
                              downloaded_before |-> downloaded_count]
    /\ UNCHANGED <<impl, ingestVars, indexVars, modules, manifest_cache_file,
                   build_timestamps, now, remote, first_run, fetched_prev>>

\* the loop is exhausted: log_operation_complete(...)
FinishDownload ==
    /\ sync_pc = "running"
    /\ mod_idx = Len(modules)
    /\ sync_pc' = "complete"
    /\ UNCHANGED <<impl, ingestVars, indexVars, modules, manifest_cache_file,
                   build_timestamps, now, cache, remote, mod_idx, downloaded_count, skipped_count, first_run,
                   fetched_prev, fetched_cur, failed_count, last>>

(***************************************************************************)
(* Index building: the inputs.                                             *)
(***************************************************************************)
\* a cached image file is modelled by the header byte holding its pixel width;
\* an empty file is not an image
IndexWidths == {15, 16}
IndexFiles == { Absent, File(<<>>) } \cup { File(<<w>>) : w \in IndexWidths }

\* manifests-cache.json: plugin -> {"modules": {module -> {"creationTimestamp": t}}}
CreationTimestamps == ("m1" :> 1700000000) @@ ("m2" :> 1600000000)
ModuleEntries(m) == { EmptyDict, [creationTimestamp |-> CreationTimestamps[m]] }
ModulesDicts ==
    UNION { { f \in [ms -> UNION { ModuleEntries(m) : m \in ms }] :
                 \A m \in ms : f[m] \in ModuleEntries(m) } :
            ms \in SUBSET DOMAIN CreationTimestamps }
IndexCacheEntries == { EmptyDict } \cup { [modules |-> d] : d \in ModulesDicts }
IndexCacheDocs == UNION { [ps -> IndexCacheEntries] : ps \in SUBSET SyncPlugins }
IndexCacheFiles ==
    { [status |-> "missing"], [status |-> "malformed"] } \cup
    { [status |-> "ok", doc |-> d] : d \in IndexCacheDocs }

\* parsed_plugins.json: missing, malformed, or the list of ModuleRecords
ParsedPluginsFiles(n) ==
    { [status |-> "missing"], [status |-> "malformed"] } \cup
    { [status |-> "ok", data |-> l] : l \in SeqsUpTo(SyncModules, n) }

\* a search file left by an earlier run
OldSearchFile == [exists |-> TRUE, doc |-> [headers |-> SEARCH_HEADERS, data |-> <<>>]]

(***************************************************************************)
(* Index building: the code (generate_search_file.py, timestamp_manager.py,*)
(* file_utils.py).                                                         *)
(***************************************************************************)
\* mutant: a module list that cannot be loaded counts as empty
load_json_EmptyOnError(file) ==
    IF file.status = "ok" THEN Return(file.data) ELSE Return(<<>>)

\* FileUtils.load_json: FileNotFoundError and JSONDecodeError become
\* FileProcessingError
load_json(file) ==
    IF file.status = "ok" THEN Return(file.data) ELSE Raise("FileProcessingError")

\* TimestampManager.get_module_timestamps
get_module_timestamps(file) ==
    IF file.status # "ok" THEN Raise("FileProcessingError")
    ELSE Return([plugin_slug \in DOMAIN file.doc |->
                   LET mods == GetDefault(file.doc[plugin_slug], "modules", EmptyDict)
                   IN  [module_slug \in DOMAIN mods |->
                          IF "creationTimestamp" \in DOMAIN mods[module_slug]
                          THEN JInt(mods[module_slug].creationTimestamp)
                          ELSE None]])

\* mutant: a missing timestamp counts as the epoch
get_module_timestamp_Epoch(plugin_slug, module_slug, mts) ==
    IF plugin_slug \in DOMAIN mts /\ module_slug \in DOMAIN mts[plugin_slug]
    THEN mts[plugin_slug][module_slug]
    ELSE JInt(0)

\* module_timestamps[plugin_slug][module_slug], None on KeyError
get_module_timestamp(plugin_slug, module_slug, mts) ==
    IF plugin_slug \in DOMAIN mts /\ module_slug \in DOMAIN mts[plugin_slug]
    THEN mts[plugin_slug][module_slug]
    ELSE None

\* PIL.Image.open(image_path), then img.width
Image_open(file) ==
    IF file.content = <<>> THEN Raise("UnidentifiedImageError")
    ELSE Return([width |-> file.content[1]])

\* math.ceil(num / den): the smallest integer not below the quotient
ceil(num, den) == - ((- num) \div den)

\* mutant: the quotient is truncated
_calculate_module_size_Floor(c, plugin_slug, module_slug) ==
    LET path == <<plugin_slug, module_slug>>
        img == Image_open(c[path])
    IN  IF path \in DOMAIN c /\ c[path].exists /\ img.exc = "none"
        THEN JInt(img.value.width \div PIXELS_PER_HP)
        ELSE None

\* SearchFileGenerator._calculate_module_size: None when the image is absent or
\* opening it raises
_calculate_module_size(c, plugin_slug, module_slug) ==
    LET path == <<plugin_slug, module_slug>>
        img == Image_open(c[path])
    IN  IF path \in DOMAIN c /\ c[path].exists /\ img.exc = "none"
        THEN JInt(ceil(img.value.width, PIXELS_PER_HP))
        ELSE None

\* the record built by the body of _process_modules' loop: module.copy() with
\* two more keys
_process_modules_body(module, mts, c) ==
    LET plugin_slug == module.plugin_slug.s
        module_slug == module.module_slug.s
        timestamp == get_module_timestamp(plugin_slug, module_slug, mts)
        module_size == _calculate_module_size(c, plugin_slug, module_slug)
    IN  WithKey(WithKey(module, "timestamp", timestamp), "size", module_size)

\* mutant: the two keys are set on the module itself, not on a copy
_process_modules_step_NoCopy(module, mts, c) ==
    [module |-> _process_modules_body(module, mts, c),
     processed_module |-> _process_modules_body(module, mts, c)]

\* what one iteration does to the heap: `module`, the record of the input list,
\* as the iteration leaves it, and the record appended to processed_modules
_process_modules_step(module, mts, c) ==
    [module |-> module,
     processed_module |-> _process_modules_body(module, mts, c)]

\* mutant: module_name and module_slug change places
_create_search_data_Swapped(mods) ==
    [headers |-> SEARCH_HEADERS,
     data |-> [i \in 1..Len(mods) |->
                 <<mods[i].plugin_slug, mods[i].plugin_name, mods[i].module_slug,
                   mods[i].module_name, mods[i].description, mods[i].tags,
                   mods[i].timestamp, mods[i].size>>]]

_create_search_data(mods) ==
    [headers |-> SEARCH_HEADERS,
     data |-> [i \in 1..Len(mods) |->
                 <<mods[i].plugin_slug, mods[i].plugin_name, mods[i].module_name,
                   mods[i].module_slug, mods[i].description, mods[i].tags,
                   mods[i].timestamp, mods[i].size>>]]

(***************************************************************************)
(* Index building: the state machine of generate_search_file.              *)
(***************************************************************************)
\* generate_search_file is entered (generate_search_file.py's __main__)
GenerateSearchFile ==
    /\ index_pc \in {"idle", "saved", "raised"}
    /\ sync_pc # "running"                          \* the stages run one after the other
    /\ index_pc' = "start"
    /\ index_exc' = "none"
    /\ index_modules' = <<>>
    /\ module_timestamps' = EmptyDict
    /\ processed_modules' = <<>>
    /\ UNCHANGED <<impl, ingestVars, syncVars, parsed_plugins_file, search_file>>

\* modules = self._load_module_data()
LoadModuleData ==
    /\ index_pc = "start"
    /\ LET r == load_json(parsed_plugins_file)
       IN  /\ index_modules' = IF r.exc = "none" THEN r.value ELSE index_modules
           /\ index_pc' = IF r.exc = "none" THEN "loaded" ELSE "raised"
           /\ index_exc' = r.exc
    /\ UNCHANGED <<impl, ingestVars, syncVars, parsed_plugins_file, search_file,
                   module_timestamps, processed_modules>>

\* module_timestamps = self.timestamp_manager.get_module_timestamps()
GetModuleTimestamps ==
    /\ index_pc = "loaded"
    /\ LET r == get_module_timestamps(manifest_cache_file)
       IN  /\ module_timestamps' = IF r.exc = "none" THEN r.value ELSE module_timestamps
           /\ index_pc' = IF r.exc = "none" THEN "processing" ELSE "raised"
           /\ index_exc' = r.exc
    /\ UNCHANGED <<impl, ingestVars, syncVars, parsed_plugins_file, search_file,
                   index_modules, processed_modules>>

\* one iteration of `for i, module in enumerate(modules)` in _process_modules
ProcessModules ==
    /\ index_pc = "processing"
    /\ Len(processed_modules) < Len(index_modules)
    /\ LET i == Len(processed_modules) + 1
           r == _process_modules_step(index_modules[i], module_timestamps, cache)
       IN  /\ processed_modules' = Append(processed_modules, r.processed_module)
           /\ index_modules' = [index_modules EXCEPT ![i] = r.module]
    /\ UNCHANGED <<impl, ingestVars, syncVars, index_pc, index_exc, parsed_plugins_file,
                   search_file, module_timestamps>>

\* search_data = self._create_search_data(processed_modules); save_json
SaveSearchFile ==
    /\ index_pc = "processing"
    /\ Len(processed_modules) = Len(index_modules)
    /\ search_file' = [exists |-> TRUE, doc |-> _create_search_data(processed_modules)]
    /\ index_pc' = "saved"
    /\ UNCHANGED <<impl, ingestVars, syncVars, index_exc, parsed_plugins_file,
                   index_modules, module_timestamps, processed_modules>>

\* process_data.py's __main__: json.dump(all_plugins, f) once the manifests are parsed
SaveParsedPlugins ==
    /\ ingest_pc = "returned"
    /\ index_pc \in {"idle", "saved", "raised"}
    /\ parsed_plugins_file # [status |-> "ok", data |-> all_modules]
    /\ parsed_plugins_file' = [status |-> "ok", data |-> all_modules]
    /\ UNCHANGED <<impl, ingestVars, syncVars, index_pc, index_exc, search_file,
                   index_modules, module_timestamps, processed_modules>>

(***************************************************************************)
(* Specifications.                                                         *)
(***************************************************************************)
IngestIdle ==
    /\ ingest_pc = "idle"
    /\ n_files = 0
    /\ file_idx = 0
    /\ all_modules = <<>>
    /\ cur_file = NoFile
    /\ prev_modules = <<>>

IndexIdle ==
    /\ index_pc = "idle"
    /\ index_exc = "none"
    /\ parsed_plugins_file = [status |-> "missing"]
    /\ search_file = Absent
    /\ index_modules = <<>>
    /\ module_timestamps = EmptyDict
    /\ processed_modules = <<>>

SyncIdle ==
    /\ sync_pc = "idle"
    /\ modules = <<>>
    /\ manifest_cache_file = [status |-> "missing"]
    /\ build_timestamps = EmptyDict
    /\ now = Now0
    /\ cache = [p \in Paths |-> Absent]
    /\ remote = [p \in Paths |-> Absent]
    /\ mod_idx = 0
    /\ downloaded_count = 0
    /\ skipped_count = 0
    /\ first_run = TRUE
    /\ fetched_prev = {}
    /\ fetched_cur = {}
    /\ failed_count = 0
    /\ last = NoStep

\* one manifest file about to be parsed
InitManifest ==
    /\ impl \in Impls
    /\ ingest_pc = "call"
    /\ n_files = 1
    /\ file_idx = 0
    /\ all_modules = <<>>
    /\ cur_file \in ManifestFiles(MaxManifestModules)
    /\ prev_modules = <<>>
    /\ SyncIdle
    /\ IndexIdle

NextManifest == ParsePluginManifest

SpecManifest == InitManifest /\ [][NextManifest]_vars

\* parse_all_manifests / parse_all_plugins entered: all_modules = [], the
\* directory listed
InitIngest ==
    /\ impl \in Impls
    /\ ingest_pc = "parsing"
    /\ n_files \in 0..MaxFiles
    /\ file_idx = 0
    /\ all_modules = <<>>
    /\ cur_file = NoFile
    /\ prev_modules = <<>>
    /\ SyncIdle
    /\ IndexIdle

NextIngest == ParseManifest \/ ReturnModules

SpecIngest == InitIngest /\ [][NextIngest]_vars

\* a synchronizer about to run over a module list, with some local cache, some
\* remote host and some timestamp cache document
InitSync ==
    /\ impl \in Impls
    /\ IngestIdle
    /\ IndexIdle
    /\ sync_pc = "ready"
    /\ modules \in SeqsUpTo(SyncModules, MaxModules)
    /\ manifest_cache_file \in ManifestCacheFiles
    /\ build_timestamps = IF impl = "class" THEN get_build_timestamps(manifest_cache_file)
                          ELSE EmptyDict
    /\ now = Now0
    /\ cache \in [Paths -> LocalFiles]
    /\ remote \in [Paths -> RemoteFiles]
    /\ mod_idx = 0
    /\ downloaded_count = 0
    /\ skipped_count = 0
    /\ first_run = TRUE
    /\ fetched_prev = {}
    /\ fetched_cur = {}
    /\ failed_count = 0
    /\ last = NoStep

NextSync == StartDownload \/ DownloadModuleImage \/ FinishDownload

SpecSync == InitSync /\ [][NextSync]_vars

\* a synchronizer about to run over one module whose plugin was built between a
\* day in the future and MaxBuildAgeDays days ago, to the second around each
\* whole day, or has no recorded build time
AgedBuildTimes ==
    { Now0 - (k * SecondsPerDay + d) : k \in (-1)..MaxBuildAgeDays, d \in {-1, 0, 1} }
AgedCacheEntries == { EmptyDict } \cup { [buildTimestamp |-> t] : t \in AgedBuildTimes }

InitStale ==
    /\ impl \in Impls
    /\ IngestIdle
    /\ IndexIdle
    /\ sync_pc = "ready"
    /\ modules = <<SyncRecord("A", "m1")>>
    /\ manifest_cache_file \in { [status |-> "ok", doc |-> [A |-> e]] : e \in AgedCacheEntries }
    /\ build_timestamps = IF impl = "class" THEN get_build_timestamps(manifest_cache_file)
                          ELSE EmptyDict
    /\ now = Now0
    /\ \E f \in LocalFiles :
          cache = [p \in Paths |-> IF p = <<"A", "m1">> THEN f ELSE Absent]
    /\ \E f \in RemoteFiles :
          remote = [p \in Paths |-> IF p = <<"A", "m1">> THEN f ELSE Absent]
    /\ mod_idx = 0
    /\ downloaded_count = 0
    /\ skipped_count = 0
    /\ first_run = TRUE
    /\ fetched_prev = {}
    /\ fetched_cur = {}
    /\ failed_count = 0
    /\ last = NoStep

SpecStale == InitStale /\ [][NextSync]_vars

\* a started run keeps executing: the loop takes its next iteration and, once
\* exhausted, the completion report is logged
SpecSyncFair ==
    SpecSync /\ WF_vars(DownloadModuleImage) /\ WF_vars(FinishDownload)

\* generate_search_file about to run over some module list, some timestamp
\* cache document and some local cache
InitIndex ==
    /\ impl = "class"
    /\ IngestIdle
    /\ sync_pc = "idle"
    /\ modules = <<>>
    /\ manifest_cache_file \in IndexCacheFiles
    /\ build_timestamps = EmptyDict
    /\ now = Now0
    /\ cache \in [Paths -> IndexFiles]
    /\ remote = [p \in Paths |-> Absent]
    /\ mod_idx = 0
    /\ downloaded_count = 0
    /\ skipped_count = 0
    /\ first_run = TRUE
    /\ fetched_prev = {}
    /\ fetched_cur = {}
    /\ failed_count = 0
    /\ last = NoStep
    /\ index_pc = "start"
    /\ index_exc = "none"
    /\ parsed_plugins_file \in ParsedPluginsFiles(MaxIndexModules)
    /\ search_file \in {Absent, OldSearchFile}
    /\ index_modules = <<>>
    /\ module_timestamps = EmptyDict
    /\ processed_modules = <<>>

NextIndex == LoadModuleData \/ GetModuleTimestamps \/ ProcessModules \/ SaveSearchFile

SpecIndex == InitIndex /\ [][NextIndex]_vars

\* generate_search_file about to run over one module whose cached image has
\* some pixel width
InitSize ==
    /\ impl = "class"
    /\ IngestIdle
    /\ sync_pc = "idle"
    /\ modules = <<>>
    /\ manifest_cache_file \in
          { [status |-> "ok", doc |-> d] : d \in { EmptyDict, [A |-> EmptyDict] } }
    /\ build_timestamps = EmptyDict
    /\ now = Now0
    /\ \E w \in 1..MaxWidth :
          cache = [p \in Paths |-> IF p = <<"A", "m1">> THEN File(<<w>>) ELSE Absent]
    /\ remote = [p \in Paths |-> Absent]
    /\ mod_idx = 0
    /\ downloaded_count = 0
    /\ skipped_count = 0
    /\ first_run = TRUE
    /\ fetched_prev = {}
    /\ fetched_cur = {}
    /\ failed_count = 0
    /\ last = NoStep
    /\ index_pc = "start"
    /\ index_exc = "none"
    /\ parsed_plugins_file = [status |-> "ok", data |-> <<SyncRecord("A", "m1")>>]
    /\ search_file = Absent
    /\ index_modules = <<>>
    /\ module_timestamps = EmptyDict
    /\ processed_modules = <<>>

SpecSize == InitSize /\ [][NextIndex]_vars

\* process_data.py parses the manifests directory and saves the module list,
\* then generate_search_file.py builds the index from it.  No image has been
\* downloaded: the local cache is empty.
PipelineCacheDoc ==
    [A |-> [buildTimestamp |-> Now0 - 10 * SecondsPerDay,
            modules |-> [m1 |-> [creationTimestamp |-> CreationTimestamps["m1"]]]]]

InitPipeline ==
    /\ impl = "script"
    /\ ingest_pc = "parsing"
    /\ n_files \in 0..MaxFiles
    /\ file_idx = 0
    /\ all_modules = <<>>
    /\ cur_file = NoFile
    /\ prev_modules = <<>>
    /\ sync_pc = "idle"
    /\ modules = <<>>
    /\ manifest_cache_file = [status |-> "ok", doc |-> PipelineCacheDoc]
    /\ build_timestamps = EmptyDict
    /\ now = Now0
    /\ cache = [p \in Paths |-> Absent]
    /\ remote = [p \in Paths |-> Absent]
    /\ mod_idx = 0
    /\ downloaded_count = 0
    /\ skipped_count = 0
    /\ first_run = TRUE
    /\ fetched_prev = {}
    /\ fetched_cur = {}
    /\ failed_count = 0
    /\ last = NoStep
    /\ IndexIdle

NextPipeline ==
    \/ ParseManifest
    \/ ReturnModules
    \/ SaveParsedPlugins
    \/ GenerateSearchFile
    \/ NextIndex

SpecPipeline == InitPipeline /\ [][NextPipeline]_vars

\* the synchronizer and the index builder run, one after the other and in any
\* order, over the same module list and the same local cache
InitCache ==
    /\ impl \in Impls
    /\ IngestIdle
    /\ sync_pc = "ready"
    /\ modules \in SeqsUpTo(SyncModules, MaxModules)
    /\ manifest_cache_file \in ManifestCacheFiles
    /\ build_timestamps = IF impl = "class" THEN get_build_timestamps(manifest_cache_file)
                          ELSE EmptyDict
    /\ now = Now0
    /\ cache \in [Paths -> LocalFiles]
    /\ remote \in [Paths -> RemoteFiles]
    /\ mod_idx = 0
    /\ downloaded_count = 0
    /\ skipped_count = 0
    /\ first_run = TRUE
    /\ fetched_prev = {}
    /\ fetched_cur = {}
    /\ failed_count = 0
    /\ last = NoStep
    /\ index_pc = "idle"
    /\ index_exc = "none"
    /\ parsed_plugins_file = [status |-> "ok", data |-> modules]
    /\ search_file = Absent
    /\ index_modules = <<>>
    /\ module_timestamps = EmptyDict
    /\ processed_modules = <<>>

NextCache == NextSync \/ GenerateSearchFile \/ NextIndex

SpecCache == InitCache /\ [][NextCache]_vars

(***************************************************************************)
(* Properties of asset synchronization (checked under SpecSync).           *)
(* `last` is the record of the latest processed module; build_timestamps   *)
(* and now are those the module was processed with.                        *)
(***************************************************************************)
Stepped == last.idx # -1

\* days_since_update > CACHE_EXPIRY_DAYS, an unknown build timestamp counting
\* as arbitrarily many days
Stale(plugin_slug) ==
    \/ plugin_slug \notin DOMAIN build_timestamps
    \/ (now - build_timestamps[plugin_slug]) \div SecondsPerDay > CACHE_EXPIRY_DAYS

\* the probe succeeded and reported the byte size of the local file
ProbeMatched ==
    /\ last.head.status = "ok"
    /\ "content-length" \in DOMAIN last.head.headers
    /\ last.head.headers["content-length"] = Len(last.before.content)

\* C1: a module whose local image exists and whose plugin is stale (or has an
\* unknown build timestamp) is skipped: no probe, no download, the file is left
\* as it was and skipped_count grows by one.
C1_StaleSkipped ==
    (Stepped /\ last.before.exists /\ Stale(last.plugin_slug))
        => /\ last.outcome = "skipped"
           /\ last.events = <<>>
           /\ cache[last.path] = last.before
           /\ skipped_count = last.skipped_before + 1
           /\ downloaded_count = last.downloaded_before

\* the case of C1: stale, and the remote size differs from the local size
C1_Witness ==
    /\ Stepped /\ last.before.exists /\ Stale(last.plugin_slug)
    /\ remote[last.path].exists
    /\ Len(remote[last.path].content) # Len(last.before.content)
    /\ last.outcome = "skipped"

\* C2 as stated: a module whose plugin slug is absent from the timestamp cache
\* and whose local image exists is size-probed.
C2_AbsentSlugProbed ==
    (Stepped /\ last.before.exists /\ last.plugin_slug \notin DOMAIN build_timestamps)
        => Issued(last.events, "HEAD")

\* C2 amended: such a module is skipped on the staleness branch, without a probe.
C2_AbsentSlugSkipped ==
    (Stepped /\ last.before.exists /\ last.plugin_slug \notin DOMAIN build_timestamps)
        => /\ last.outcome = "skipped"
           /\ ~ Issued(last.events, "HEAD")
           /\ ~ Issued(last.events, "GET")

C2_Witness ==
    /\ Stepped /\ last.before.exists
    /\ last.plugin_slug \notin DOMAIN build_timestamps
    /\ manifest_cache_file.status = "ok"
    /\ last.outcome = "skipped"

\* C3 as stated: within the staleness window (days_since_update <=
\* CACHE_EXPIRY_DAYS) an existing image is trusted without a size probe.
C3_FreshNotProbed ==
    (Stepped /\ last.before.exists /\ ~ Stale(last.plugin_slug))
        => ~ Issued(last.events, "HEAD")

\* C3 amended: within the window an existing image is always size-probed (the
\* probe is the first request); it is beyond the window that it is trusted
\* without a probe.
C3_FreshProbed ==
    (Stepped /\ last.before.exists)
        => IF Stale(last.plugin_slug)
           THEN ~ Issued(last.events, "HEAD")
           ELSE last.events # <<>> /\ Head(last.events) = "HEAD"

C3_Witness ==
    /\ Stepped /\ last.before.exists /\ ~ Stale(last.plugin_slug)
    /\ Issued(last.events, "HEAD")
    /\ last.outcome = "skipped"

\* C4: local image present and not stale: skipped iff the probe succeeded with a
\* size equal to the local size; otherwise a download is attempted, and a
\* successful download replaces the local file.
C4_ProbeDecides ==
    (Stepped /\ last.before.exists /\ ~ Stale(last.plugin_slug))
        => /\ last.head # NoRequest
           /\ (last.outcome = "skipped") <=> ProbeMatched
           /\ ProbeMatched => (last.events = <<"HEAD">> /\ cache[last.path] = last.before)
           /\ ~ ProbeMatched =>
                 /\ Issued(last.events, "GET")
                 /\ last.get.status = "ok" =>
                       (last.outcome = "downloaded" /\ cache[last.path] = File(last.get.content))

\* the three cases of C4 that lead to a download, and the replacement
C4_Witness ==
    /\ Stepped /\ last.before.exists /\ ~ Stale(last.plugin_slug)
    /\ last.head.status = "ok"
    /\ "content-length" \notin DOMAIN last.head.headers
    /\ last.outcome = "downloaded"
    /\ cache[last.path] # last.before

\* C5: no local file: a download is attempted, without a probe, whatever the
\* plugin's build timestamp.
C5_AbsentDownloaded ==
    (Stepped /\ ~ last.before.exists)
        => /\ last.events # <<>>
           /\ Head(last.events) = "GET"
           /\ ~ Issued(last.events, "HEAD")
           /\ last.outcome \in {"downloaded", "failed"}

\* the no-file check wins over staleness
C5_Witness ==
    /\ Stepped /\ ~ last.before.exists /\ Stale(last.plugin_slug)
    /\ last.outcome = "downloaded"
    /\ cache[last.path].exists

\* C6 as stated: in a run that follows another, a module whose download
\* succeeded in the previous run and whose plugin is within the window is
\* skipped: no download, file unchanged.  (Stated for a host that answers the
\* second run's probe: a transport failure is not counted against the claim.)
C6_SecondRunSkips ==
    (/\ Stepped /\ ~ first_run /\ last.idx \in fetched_prev /\ ~ Stale(last.plugin_slug)
     /\ last.head.status # "error")
        => /\ last.outcome = "skipped"
           /\ ~ Issued(last.events, "GET")
           /\ cache[last.path] = last.before

\* C6 amended: ... is skipped provided the second run's probe succeeds and
\* carries the content-length of the unchanged remote file.
C6_SecondRunSkipsWhenProbed ==
    (/\ Stepped /\ ~ first_run /\ last.idx \in fetched_prev /\ ~ Stale(last.plugin_slug)
     /\ last.head.status = "ok" /\ "content-length" \in DOMAIN last.head.headers)
        => /\ last.outcome = "skipped"
           /\ last.events = <<"HEAD">>
           /\ cache[last.path] = last.before

C6_Witness ==
    /\ Stepped /\ ~ first_run /\ last.idx \in fetched_prev /\ ~ Stale(last.plugin_slug)
    /\ last.outcome = "skipped"
    /\ cache[last.path] = remote[last.path]

\* C11: a failed download (the GET fails) is caught inside the processing of
\* that module: the module counts as neither downloaded nor skipped, its file is
\* left as it was, the loop goes on to the next module, and every run reaches
\* its completion report with every module processed.
C11_FailureIsPerAsset ==
    /\ [](sync_pc # "aborted")
    /\ []((Stepped /\ last.get.status = "error")
             => /\ last.outcome = "failed"
                /\ cache[last.path] = last.before
                /\ downloaded_count = last.downloaded_before
                /\ skipped_count = last.skipped_before
                /\ mod_idx = last.idx + 1)
    /\ [](sync_pc = "complete"
             => /\ mod_idx = Len(modules)
                /\ downloaded_count + skipped_count + failed_count = Len(modules))
    /\ (sync_pc = "running" ~> sync_pc = "complete")

\* the first module's download failed, the second was downloaded, the run
\* completed
C11_Witness ==
    /\ sync_pc = "complete" /\ Len(modules) = 2
    /\ failed_count = 1
    /\ last.idx = 1 /\ last.outcome = "downloaded"

\* C12: the delay is the last thing a successful download does, after all the
\* requests of that module and so before any request of a later one; a skip and
\* a failed download impose no delay.
C12_DelayAfterDownload ==
    Stepped
        => /\ Issued(last.events, "SLEEP") <=> (last.outcome = "downloaded")
           /\ last.outcome = "downloaded"
                 => /\ last.events[Len(last.events)] = "SLEEP"
                    /\ last.events[Len(last.events) - 1] = "WRITE"
                    /\ \A k \in 1..(Len(last.events) - 1) : last.events[k] # "SLEEP"

\* a download happened earlier in the run, and the module after it was probed
C12_Witness ==
    /\ Stepped /\ last.idx = 1 /\ 0 \in fetched_cur
    /\ Issued(last.events, "HEAD")
    /\ last.outcome = "failed"
    /\ ~ Issued(last.events, "SLEEP")

\* the build-timestamp index has been loaded from the cache document
BuildTimestampsLoaded == impl = "class" \/ sync_pc # "ready"

StoredBuildTimestamp(p) ==
    IF "buildTimestamp" \in DOMAIN manifest_cache_file.doc[p]
    THEN manifest_cache_file.doc[p].buildTimestamp
    ELSE -1

\* C17 as stated: for every plugin slug the index holds the stored
\* buildTimestamp, or -1 when the plugin key or its buildTimestamp is absent.
C17_EverySlugHasTimestamp ==
    (BuildTimestampsLoaded /\ manifest_cache_file.status = "ok")
        => \A p \in SyncPlugins :
              /\ p \in DOMAIN build_timestamps
              /\ build_timestamps[p] = IF p \in DOMAIN manifest_cache_file.doc
                                       THEN StoredBuildTimestamp(p) ELSE -1

\* C17 amended: the index holds exactly the plugin keys of the document, each
\* with its stored buildTimestamp or -1 when the entry has none; a plugin key
\* absent from the document is absent from the index.
C17_DocumentSlugsHaveTimestamp ==
    (BuildTimestampsLoaded /\ manifest_cache_file.status = "ok")
        => /\ DOMAIN build_timestamps = DOMAIN manifest_cache_file.doc
           /\ \A p \in DOMAIN manifest_cache_file.doc :
                 build_timestamps[p] = StoredBuildTimestamp(p)

\* an entry without a buildTimestamp, read as -1, and a module of that plugin
\* processed with it
C17_Witness ==
    /\ BuildTimestampsLoaded /\ manifest_cache_file.status = "ok"
    /\ "A" \in DOMAIN manifest_cache_file.doc
    /\ "buildTimestamp" \notin DOMAIN manifest_cache_file.doc["A"]
    /\ build_timestamps["A"] = -1
    /\ Stepped /\ last.before.exists /\ last.outcome = "skipped"

C23_FailedDownloadKeepsFile ==
    Stepped
        => /\ last.get.status = "error"
                 => (last.after = last.before /\ cache[last.path] = last.before
                     /\ last.others_unchanged)
           /\ last.after # last.before
                 => (last.get.status = "ok" /\ last.after = File(last.get.content))
           /\ last.get.status = "ok" => cache[last.path] = File(last.get.content)

\* an existing file whose size the probe found different, and a failed GET
C23_Witness ==
    /\ Stepped /\ last.before.exists
    /\ last.head.status = "ok" /\ ~ ProbeMatched
    /\ last.get.status = "error"
    /\ cache[last.path] = last.before

\* C24: each processed module adds one to downloaded_count (download
\* succeeded), one to skipped_count (skip) or nothing (download failed); the
\* counters add up to the modules processed less the failed downloads; a module
\* counted has a local file; every run starts its counters at 0.
C24_CountersAccount ==
    /\ Stepped
          => /\ last.outcome = "downloaded"
                   => (downloaded_count = last.downloaded_before + 1
                       /\ skipped_count = last.skipped_before)
             /\ last.outcome = "skipped"
                   => (downloaded_count = last.downloaded_before
                       /\ skipped_count = last.skipped_before + 1)
             /\ last.outcome = "failed"
                   => (downloaded_count = last.downloaded_before
                       /\ skipped_count = last.skipped_before)
             /\ last.outcome \in {"downloaded", "skipped"} => cache[last.path].exists
    /\ sync_pc \in {"running", "complete"}
          => /\ downloaded_count + skipped_count = mod_idx - failed_count
             /\ downloaded_count = Cardinality(fetched_cur)
    /\ sync_pc = "complete" => mod_idx = Len(modules)
    /\ (sync_pc = "running" /\ mod_idx = 0) => (downloaded_count = 0 /\ skipped_count = 0)

\* a second run that skipped both modules after a first run that downloaded
\* both: the counts are those of the second run alone
C24_Witness ==
    /\ ~ first_run /\ sync_pc = "complete" /\ Len(modules) = 2
    /\ Cardinality(fetched_prev) = 2
    /\ skipped_count = 2 /\ downloaded_count = 0

Count(events, e) == Cardinality({ k \in DOMAIN events : events[k] = e })
Position(events, e) == CHOOSE k \in DOMAIN events : events[k] = e

\* C25: per module and run at most one probe and at most one download; a probe
\* only for an existing file within the window; the probe before the download;
\* no download after a probe that matched the local size, nor for a skipped
\* module.
C25_AtMostOneProbeAndDownload ==
    Stepped
        => /\ Count(last.events, "HEAD") <= 1
           /\ Count(last.events, "GET") <= 1
           /\ Issued(last.events, "HEAD")
                 => (last.before.exists /\ ~ Stale(last.plugin_slug))
           /\ (Issued(last.events, "HEAD") /\ Issued(last.events, "GET"))
                 => Position(last.events, "HEAD") < Position(last.events, "GET")
           /\ (Issued(last.events, "HEAD") /\ ProbeMatched) => ~ Issued(last.events, "GET")
           /\ last.outcome = "skipped" => ~ Issued(last.events, "GET")

\* a probe that did not match, followed by the download
C25_Witness ==
    /\ Stepped /\ last.events = <<"HEAD", "GET", "WRITE", "SLEEP">>
    /\ last.head.status = "ok" /\ ~ ProbeMatched

\* C26: from any state of a run, for any remote responses, the two synchronizer
\* implementations do the same with the next module: same requests in the same
\* order, same cache afterwards, same counters; and both load the same
\* build-timestamp index.
C26_SynchronizersAgree ==
    /\ (sync_pc = "running" /\ mod_idx < Len(modules))
          => LET module == modules[mod_idx + 1]
                 path == image_path(module)
             IN  \A head \in HeadResponses(remote, path), get \in GetResponses(remote, path) :
                    _download_module_image(cache, build_timestamps, now, downloaded_count,
                                           skipped_count, module, head, get)
                    = download_images_body(cache, build_timestamps, now, downloaded_count,
                                           skipped_count, module, head, get)
    /\ BuildTimestampsLoaded => build_timestamps = get_build_timestamps(manifest_cache_file)

\* one module was probed and downloaded, the next is about to be processed; its
\* image exists and its plugin is within the window
C26_Witness ==
    /\ sync_pc = "running" /\ mod_idx = 1 /\ Len(modules) = 2
    /\ last.events = <<"HEAD", "GET", "WRITE", "SLEEP">>
    /\ cache[image_path(modules[2])].exists
    /\ ~ Stale(modules[2].plugin_slug.s)

(***************************************************************************)
(* Properties of the ingestion of one manifest (checked under              *)
(* SpecManifest): cur_file is the manifest, all_modules what the call       *)
(* returned.                                                               *)
(***************************************************************************)
Parsed == ingest_pc \in {"returned", "raised"}
IsManifest == cur_file.status = "ok"
HasVersion == IsManifest /\ "version" \in DOMAIN cur_file.data
ManifestModules == IF "modules" \in DOMAIN cur_file.data THEN cur_file.data.modules.items ELSE <<>>

\* plain character-by-character ordering: a is below b at the first position
\* where they differ, or a is a proper prefix of b
LexBelow(a, b) ==
    \E k \in 1..Len(b) :
        /\ \A j \in 1..(k - 1) : j <= Len(a) /\ Ord(a[j]) = Ord(b[j])
        /\ (k > Len(a) \/ Ord(a[k]) < Ord(b[k]))

VersionBelow == LexBelow(Chars(cur_file.data.version.s), Chars(MINIMUM_VERSION))
SlugExcluded == cur_file.data.slug.s \in EXCLUDED_PLUGINS

FlagTrue(m, flag) == flag \in DOMAIN m /\ m[flag] = JBool(TRUE)
Flagged(m) == FlagTrue(m, "hidden") \/ FlagTrue(m, "deprecated")
BooleanFlags(m) ==
    \A flag \in {"hidden", "deprecated"} : flag \in DOMAIN m => m[flag].type = "bool"

\* C7: a version string below the minimum in plain string ordering yields zero
\* records whatever the modules are ("10.0.0" and "2.0" are below "2.0.0"); a
\* version equal to the minimum passes the version filter.
C7_BelowMinimumEmpty ==
    /\ (Parsed /\ HasVersion /\ VersionBelow)
           => (ingest_pc = "returned" /\ all_modules = <<>>)
    /\ (/\ Parsed /\ HasVersion /\ cur_file.data.version.s = MINIMUM_VERSION
        /\ ~ SlugExcluded
        /\ \E k \in DOMAIN ManifestModules :
              BooleanFlags(ManifestModules[k]) /\ ~ Flagged(ManifestModules[k]))
           => (ingest_pc = "returned" /\ all_modules # <<>>)

\* "10.0.0" with a visible module: nothing is produced
C7_Witness ==
    /\ Parsed /\ HasVersion /\ cur_file.data.version.s = "10.0.0"
    /\ ~ SlugExcluded
    /\ \E k \in DOMAIN ManifestModules : ~ Flagged(ManifestModules[k])
    /\ ingest_pc = "returned" /\ all_modules = <<>>

\* the modules of the manifest that are neither hidden nor deprecated, in the
\* manifest's order, one record each
KeptIndices == { k \in DOMAIN ManifestModules : ~ Flagged(ManifestModules[k]) }
KthKept(n) == CHOOSE k \in KeptIndices : Cardinality({ j \in KeptIndices : j <= k }) = n
RecordOf(m) ==
    [plugin_slug |-> cur_file.data.slug, plugin_name |-> cur_file.data.name,
     module_slug |-> m.slug, module_name |-> m.name, description |-> m.description,
     tags |-> IF "tags" \in DOMAIN m THEN m.tags ELSE JList(<<>>)]
ExpectedRecords == [n \in 1..Cardinality(KeptIndices) |-> RecordOf(ManifestModules[KthKept(n)])]

\* C8: for a plugin that passes the plugin-level filters (its flags being
\* booleans or absent), the records are exactly those of the modules that are
\* neither hidden nor deprecated, one each, in manifest order, tags defaulting
\* to the empty sequence.
C8_ModulesFiltered ==
    (/\ Parsed /\ HasVersion /\ ~ VersionBelow /\ ~ SlugExcluded
     /\ \A k \in DOMAIN ManifestModules : BooleanFlags(ManifestModules[k]))
        => (ingest_pc = "returned" /\ all_modules = ExpectedRecords)

\* a hidden or deprecated module beside a passing sibling without tags
C8_Witness ==
    /\ Parsed /\ HasVersion /\ ~ VersionBelow /\ ~ SlugExcluded
    /\ Len(ManifestModules) = 2
    /\ Flagged(ManifestModules[1])
    /\ ~ Flagged(ManifestModules[2]) /\ BooleanFlags(ManifestModules[2])
    /\ "tags" \notin DOMAIN ManifestModules[2]
    /\ Len(all_modules) = 1
    /\ all_modules[1].module_slug = ManifestModules[2].slug
    /\ all_modules[1].tags = JList(<<>>)

\* C27: for every manifest file the two ingestors return the same ordered
\* sequence of ModuleRecords (or fail alike), modules with a non-boolean hidden
\* or deprecated value included.
C27_IngestorsAgree ==
    Parsed => parse_plugin_manifest(cur_file) = parse_plugin_json_to_list(cur_file)

\* C9: a manifest whose slug is excluded yields zero records, whatever its
\* version (above or below the minimum, or absent) and modules.
C9_ExcludedEmpty ==
    (Parsed /\ IsManifest /\ SlugExcluded)
        => (ingest_pc = "returned" /\ all_modules = <<>>)

(***************************************************************************)
(* Properties of index building (checked under SpecIndex and SpecSize).    *)
(***************************************************************************)
\* the creation timestamp stored in the cache document for (p, m)
StoredCreationTimestamp(p, m) ==
    LET doc == manifest_cache_file.doc
    IN  IF /\ p \in DOMAIN doc
           /\ "modules" \in DOMAIN doc[p]
           /\ m \in DOMAIN doc[p].modules
           /\ "creationTimestamp" \in DOMAIN doc[p].modules[m]
        THEN JInt(doc[p].modules[m].creationTimestamp)
        ELSE None

ImageReadable(p, m) == cache[<<p, m>>].exists /\ cache[<<p, m>>].content # <<>>
PixelWidth(p, m) == cache[<<p, m>>].content[1]

\* the smallest k with k * PIXELS_PER_HP >= w
UnitsFor(w) == CHOOSE k \in 0..w : k * PIXELS_PER_HP >= w /\ (k - 1) * PIXELS_PER_HP < w

ExpectedSize(p, m) == IF ImageReadable(p, m) THEN JInt(UnitsFor(PixelWidth(p, m))) ELSE None

\* C13: a readable cached image of width W gives size W / 15 when W is a
\* multiple of 15 and floor(W / 15) + 1 otherwise.
C13_SizeIsCeiling ==
    \A i \in DOMAIN processed_modules :
        LET p == index_modules[i].plugin_slug.s
            m == index_modules[i].module_slug.s
            W == PixelWidth(p, m)
        IN  ImageReadable(p, m)
               => processed_modules[i].size =
                     JInt(IF W % PIXELS_PER_HP = 0 THEN W \div PIXELS_PER_HP
                          ELSE W \div PIXELS_PER_HP + 1)

\* width 45 gives 3, not 4
C13_Witness ==
    /\ index_pc = "saved"
    /\ PixelWidth("A", "m1") = 45
    /\ search_file.doc.data[1][8] = JInt(3)

\* C14: every processed row carries the stored creation timestamp, or null when
\* the plugin key, the modules key or the module key is absent; its size is
\* null when the image is absent or unreadable; every other field is the
\* record's; and with both inputs loaded the run does not fail.
C14_NullsAreIndependent ==
    /\ \A i \in DOMAIN processed_modules :
          LET rec == index_modules[i]
              row == processed_modules[i]
              p == rec.plugin_slug.s
              m == rec.module_slug.s
          IN  /\ row.timestamp = StoredCreationTimestamp(p, m)
              /\ row.size = ExpectedSize(p, m)
              /\ DOMAIN row = DOMAIN rec \cup {"timestamp", "size"}
              /\ \A k \in DOMAIN rec : row[k] = rec[k]
    /\ (parsed_plugins_file.status = "ok" /\ manifest_cache_file.status = "ok")
          => index_pc # "raised"
    /\ index_pc = "saved" => Len(processed_modules) = Len(parsed_plugins_file.data)

\* one row without a timestamp but with a size, the other with a timestamp but
\* without a size
C14_Witness ==
    /\ index_pc = "saved" /\ Len(processed_modules) = 2
    /\ processed_modules[1].timestamp = None /\ processed_modules[1].size # None
    /\ processed_modules[2].timestamp # None /\ processed_modules[2].size = None

\* C15: the saved document has the eight fixed headers and one row per record
\* of the module list, in the list's order, each row the record's six fields
\* followed by its timestamp and size.
C15_OneRowPerRecord ==
    index_pc = "saved"
        => /\ search_file.exists
           /\ search_file.doc.headers =
                 <<"plugin_slug", "plugin_name", "module_name", "module_slug",
                   "description", "tags", "timestamp", "size">>
           /\ Len(search_file.doc.data) = Len(parsed_plugins_file.data)
           /\ \A i \in DOMAIN parsed_plugins_file.data :
                 LET rec == parsed_plugins_file.data[i]
                 IN  search_file.doc.data[i] =
                        <<rec.plugin_slug, rec.plugin_name, rec.module_name,
                          rec.module_slug, rec.description, rec.tags,
                          StoredCreationTimestamp(rec.plugin_slug.s, rec.module_slug.s),
                          ExpectedSize(rec.plugin_slug.s, rec.module_slug.s)>>

\* two different records, m2 before m1, saved in that order
C15_Witness ==
    /\ index_pc = "saved"
    /\ Len(search_file.doc.data) = 2
    /\ search_file.doc.data[1][4] = JStr("m2")
    /\ search_file.doc.data[2][4] = JStr("m1")
    /\ search_file.doc.data[1][7] # None

InputMissing(f) == f.status \in {"missing", "malformed"}

\* C19: when the module list or the timestamp cache document cannot be loaded,
\* the run ends with a FileProcessingError at that load: nothing is processed
\* and the search file keeps its previous content.
C19_LoadFailureIsFatal ==
    /\ [][(index_pc = "start" /\ InputMissing(parsed_plugins_file))
             => index_pc' = "raised"]_vars
    /\ [][(index_pc = "loaded" /\ InputMissing(manifest_cache_file))
             => index_pc' = "raised"]_vars
    /\ [][index_pc' = "raised" => search_file' = search_file]_vars
    /\ [](index_pc = "raised"
             => /\ index_exc = "FileProcessingError"
                /\ processed_modules = <<>>
                /\ ~ ENABLED NextIndex)
    /\ [](index_pc \in {"processing", "saved"}
             => ~ InputMissing(parsed_plugins_file) /\ ~ InputMissing(manifest_cache_file))

\* the module list was loaded, the cache document is missing, an earlier search
\* file is still there
C19_Witness ==
    /\ index_pc = "raised" /\ index_exc = "FileProcessingError"
    /\ parsed_plugins_file.status = "ok" /\ Len(index_modules) = 2
    /\ manifest_cache_file.status = "missing"
    /\ search_file = OldSearchFile

(***************************************************************************)
(* Properties of the pipeline from the manifests directory to the search   *)
(* file (checked under SpecPipeline).                                      *)
(***************************************************************************)
FirstFour(row) == SubSeq(row, 1, 4)

\* C16: no two rows of the saved index carry the same first four fields
\* (plugin_slug, plugin_name, module_name, module_slug), whatever manifests
\* were ingested.
C16_RowsAreDistinct ==
    index_pc = "saved"
        => \A i, j \in DOMAIN search_file.doc.data :
              i # j => FirstFour(search_file.doc.data[i]) # FirstFour(search_file.doc.data[j])

(***************************************************************************)
(* Properties of the local asset cache under synchronization and index     *)
(* building (checked under SpecCache).                                     *)
(***************************************************************************)
\* C20: no step deletes a cached file; the cache changes only in the
\* synchronizer's processing of a module, and then at most at that module's
\* path; no step of index building changes the cache.
C20_CacheIsAppendOnly ==
    /\ [][\A q \in Paths : cache[q].exists => cache'[q].exists]_vars
    /\ [][cache' # cache
             => /\ sync_pc = "running" /\ mod_idx < Len(modules)
                /\ \A q \in Paths \ {image_path(modules[mod_idx + 1])} :
                      cache'[q] = cache[q]]_vars
    /\ [][(index_pc' # index_pc \/ processed_modules' # processed_modules
           \/ search_file' # search_file)
             => cache' = cache]_vars

\* the index builder has read an image's width, and the synchronizer has
\* overwritten an existing file
C20_Witness ==
    /\ index_pc = "saved"
    /\ Len(processed_modules) = 2
    /\ processed_modules[1].size # None
    /\ Stepped /\ last.before.exists /\ last.after # last.before
    /\ last.others_unchanged

\* C21: no step of synchronization or index building changes a record of its
\* input module list (the index builder adds timestamp and size to a copy), and
\* no step of a synchronization run changes the build-timestamp index.
C21_RecordsAreImmutable ==
    /\ [][modules' = modules]_vars
    /\ [][(index_pc \in {"loaded", "processing"}) => (index_modules' = index_modules)]_vars
    /\ [][parsed_plugins_file' = parsed_plugins_file]_vars
    /\ [][sync_pc = "running" => build_timestamps' = build_timestamps]_vars
    /\ [](index_pc \in {"loaded", "processing", "saved"}
             => index_modules = parsed_plugins_file.data)

\* rows with timestamp and size were built from records that still have neither,
\* after a synchronization run that downloaded an image
C21_Witness ==
    /\ index_pc = "saved" /\ Len(processed_modules) = 2
    /\ "size" \in DOMAIN processed_modules[1]
    /\ "size" \notin DOMAIN index_modules[1]
    /\ "timestamp" \notin DOMAIN modules[1]
    /\ sync_pc = "complete" /\ downloaded_count >= 1
    /\ build_timestamps # EmptyDict

(***************************************************************************)
(* Properties of the ingestion of a directory (checked under SpecIngest).  *)
(***************************************************************************)
BadManifest(f) ==
    \/ f.status \in {"missing", "malformed"}
    \/ f.status = "ok" /\ "version" \notin DOMAIN f.data

\* C10: a bad manifest (malformed, missing, or without a version) contributes
\* nothing and does not abort the run; the records gathered from the other
\* files are kept.
C10_BadManifestSkipped ==
    (cur_file # NoFile /\ BadManifest(cur_file))
        => /\ ingest_pc # "raised"
           /\ all_modules = prev_modules

====
